---- MODULE Spec2Model ----
(***************************************************************************)
(* A model of extract_session_metrics.py: the event-stream parser          *)
(* (parse_events), the telemetry-block extractor (parse_process_log), the  *)
(* cost model (compute_cost), the timestamp helpers (ts_to_dt,             *)
(* compute_duration_ms) and the aggregator (build_summary).                *)
(*                                                                         *)
(* Units.  Prices are kept in hundredths of a dollar per million tokens    *)
(* (15.00 -> 1500, 0.08 -> 8), so every exact cost is an integer number of *)
(* 1e-8 dollars.  compute_cost returns micro-dollars (the code rounds to 6 *)
(* decimals); estimated_cost_usd is kept in 1e-4 dollars (4 decimals);     *)
(* percentages are kept in tenths of a percent (1 decimal).                *)
(*                                                                         *)
(* Rounding.  Python's round() works on the binary double, so a value that *)
(* lies exactly half way between two decimal neighbours goes up or down    *)
(* depending on representation error.  Every rounding site therefore takes *)
(* a flag `up`, chosen nondeterministically by the action that rounds: it  *)
(* decides the direction at an exact tie and is ignored otherwise.         *)
(***************************************************************************)
EXTENDS Integers, Sequences, FiniteSets, TLC

VARIABLES
    pc,             \* which stage of the run is next
    \* parse_events
    events,         \* the collections parse_events fills
    current_turn,   \* the open turn, or NoTurn
    tool_start_map, \* toolCallId -> start record
    stream,         \* the lines of events.jsonl
    nread,          \* how many of them the loop has read
    \* parse_process_log
    log_path,       \* "None" when no process log was found, else "log"
    lines,          \* content.split("\n")
    i,              \* the line index (0-based, as in the code)
    json_lines,     \* the candidate block being collected
    brace_count,
    started,
    blocks,         \* the parsed assistant_usage blocks
    llm_calls,      \* the LLMCall records returned
    \* build_summary
    report,
    \* the pure functions under study
    cost_in,        \* compute_cost: the arguments of the call
    cost_out,       \* compute_cost: its result
    dur_in,         \* compute_duration_ms: the two timestamps
    dur_out         \* compute_duration_ms: its outcome

evVars   == <<events, current_turn, tool_start_map, stream, nread>>
scanVars == <<i, json_lines, brace_count, started, blocks>>
logVars  == <<log_path, lines, scanVars, llm_calls>>
funVars  == <<cost_in, cost_out, dur_in, dur_out>>
vars     == <<pc, evVars, logVars, report, funVars>>

(***************************************************************************)
(* Bounds of the model.                                                    *)
(***************************************************************************)
MaxSecond == 2
MaxLogLines == 5
MaxEvents == 5
MaxToolCalls == 4
MaxBuilds == 6
MaxStarts == 3
MaxFinalized == 1
MaxCalls == 2

(***************************************************************************)
(* Generic helpers.                                                        *)
(***************************************************************************)
Max(a, b) == IF a >= b THEN a ELSE b

\* round(x / unit) to the nearest integer; `up` settles an exact tie.
Round(x, unit, up) ==
    LET q == x \div unit
        r == x % unit
    IN  IF 2 * r > unit THEN q + 1
        ELSE IF 2 * r < unit THEN q
        ELSE IF up THEN q + 1 ELSE q

(***************************************************************************)
(* The price table (lines 45-65), in hundredths of a dollar per 1M tokens. *)
(***************************************************************************)
Price(inp, outp, cached) == [input |-> inp, output |-> outp, cached_input |-> cached]

MODEL_PRICING ==
    [m \in {"claude-opus-4.6", "claude-opus-4.5"} |-> Price(1500, 7500, 150)]
    @@ [m \in {"claude-sonnet-4.6", "claude-sonnet-4.5", "claude-sonnet-4"}
            |-> Price(300, 1500, 30)]
    @@ [m \in {"claude-haiku-4.5"} |-> Price(80, 400, 8)]
    @@ [m \in {"gpt-5.3-codex", "gpt-5.2-codex", "gpt-5.2", "gpt-5.1-codex-max",
               "gpt-5.1-codex", "gpt-5.1", "gpt-4.1"} |-> Price(200, 800, 50)]
    @@ [m \in {"gpt-5.1-codex-mini", "gpt-5-mini"} |-> Price(40, 160, 10)]
    @@ [m \in {"gemini-3-pro-preview"} |-> Price(125, 1000, 31)]

DEFAULT_PRICING == Price(300, 1500, 30)

\* MODEL_PRICING.get(model, DEFAULT_PRICING)
PricingOf(model) ==
    IF model \in DOMAIN MODEL_PRICING THEN MODEL_PRICING[model] ELSE DEFAULT_PRICING

\* A slip: the cache reads are not clamped out of the fresh input.
ExactCostUnclamped(input_tokens, output_tokens, cache_read_tokens, model) ==
    LET pricing     == PricingOf(model)
        fresh_input == input_tokens - cache_read_tokens
    IN  fresh_input * pricing.input
        + cache_read_tokens * pricing.cached_input
        + output_tokens * pricing.output

\* A slip: the subtraction the other way round.
ExactCostSwapped(input_tokens, output_tokens, cache_read_tokens, model) ==
    LET pricing     == PricingOf(model)
        fresh_input == Max(0, cache_read_tokens - input_tokens)
    IN  fresh_input * pricing.input
        + cache_read_tokens * pricing.cached_input
        + output_tokens * pricing.output

\* The exact cost in 1e-8 dollars: the sum of lines 392-396 before rounding.
ExactCost(input_tokens, output_tokens, cache_read_tokens, model) ==
    LET pricing     == PricingOf(model)
        fresh_input == Max(0, input_tokens - cache_read_tokens)
    IN  fresh_input * pricing.input
        + cache_read_tokens * pricing.cached_input
        + output_tokens * pricing.output

\* compute_cost (lines 387-397), in micro-dollars: round(cost, 6).
compute_cost(input_tokens, output_tokens, cache_read_tokens, model, up) ==
    Round(ExactCost(input_tokens, output_tokens, cache_read_tokens, model), 100, up)

(***************************************************************************)
(* Timestamps (lines 400-416).  A timestamp value as it appears in an      *)
(* event: k = "None" (absent, JSON null), "empty" (""), "bad" (a string    *)
(* that is not ISO-8601), "Z" (ISO with a trailing Z), "offset" (ISO with  *)
(* an explicit UTC offset of `off` seconds) or "naive" (ISO without any    *)
(* offset).  t is the wall-clock reading in whole seconds.                 *)
(***************************************************************************)
Ts(k, t, off) == [k |-> k, t |-> t, off |-> off]
TsNone  == Ts("None", 0, 0)
TsEmpty == Ts("empty", 0, 0)
TsBad   == Ts("bad", 0, 0)

Seconds == 0..MaxSecond
Offsets == {0, 3600}

TimestampValues ==
    {TsNone, TsEmpty, TsBad}
    \cup {Ts("Z", t, 0) : t \in Seconds}
    \cup {Ts("offset", t, off) : t \in Seconds, off \in Offsets}
    \cup {Ts("naive", t, 0) : t \in Seconds}

\* ts_str.replace("Z", "+00:00"): a trailing Z becomes the offset +00:00.
ReplaceZ(ts) == IF ts.k = "Z" THEN Ts("offset", ts.t, 0) ELSE ts

\* datetime.fromisoformat: an aware datetime, a naive one, or ValueError.
FromIsoFormat(ts) ==
    CASE ts.k = "offset" -> [tz |-> "aware", t |-> ts.t, off |-> ts.off]
      [] ts.k = "naive"  -> [tz |-> "naive", t |-> ts.t, off |-> 0]
      [] OTHER           -> [tz |-> "ValueError", t |-> 0, off |-> 0]

DtNone == [tz |-> "None", t |-> 0, off |-> 0]

\* ts_to_dt (lines 400-407): None for a falsy or unparsable string.
ts_to_dt(ts_str) ==
    IF ts_str.k \in {"None", "empty"} THEN DtNone
    ELSE LET dt == FromIsoFormat(ReplaceZ(ts_str))
         IN  IF dt.tz = "ValueError" THEN DtNone ELSE dt

\* The outcome of a duration computation: a number of ms, None, or a raise.
DurMs(ms)    == [raised |-> FALSE, none |-> FALSE, ms |-> ms]
DurNone      == [raised |-> FALSE, none |-> TRUE, ms |-> 0]
DurTypeError == [raised |-> TRUE, none |-> FALSE, ms |-> 0]

\* compute_duration_ms (lines 410-416).  `end - start` raises TypeError when
\* one datetime is aware and the other naive; nothing catches it.
compute_duration_ms(start_ts, end_ts) ==
    LET start == ts_to_dt(start_ts)
        end   == ts_to_dt(end_ts)
    IN  IF start.tz # "None" /\ end.tz # "None"
        THEN IF start.tz # end.tz THEN DurTypeError
             ELSE DurMs(((end.t - end.off) - (start.t - start.off)) * 1000)
        ELSE DurNone

(***************************************************************************)
(* parse_events (lines 111-310).                                           *)
(*                                                                         *)
(* A line of events.jsonl is [raw, evt]: raw = "blank" (empty after        *)
(* strip), "garbage" (json.loads raises JSONDecodeError), "deep" (no JSON  *)
(* either, but json.loads leaves by another exception: RecursionError on a *)
(* line that opens more brackets than the interpreter has stack for,       *)
(* ValueError on an integer literal past the digit limit), "scalar" (valid *)
(* JSON that is no object: evt.get raises AttributeError) or "object", and *)
(* then evt = [type, timestamp, data].  Texts are kept by what the code    *)
(* reads of them: a message content by its length, a command by its        *)
(* segments [0:80], [80:100], [100:200], [200:] and the keywords its lower *)
(* case holds, a result text by the patterns it matches.                   *)
(***************************************************************************)
NoTurn == [none |-> TRUE]
NoInfo == [none |-> TRUE]

EmptyEvents ==
    [session_info |-> NoInfo, user_messages |-> <<>>, turns |-> <<>>,
     tool_starts |-> <<>>, tool_completes |-> <<>>, subagents |-> <<>>,
     compactions |-> <<>>, errors |-> <<>>, mode_changes |-> <<>>,
     plan_changes |-> 0, task_completes |-> 0, dev_loop |-> <<>>]

\* The state of one parse: the three locals of parse_events, and whether an
\* exception has left it.
NewParse ==
    [events |-> EmptyEvents, current_turn |-> NoTurn,
     tool_start_map |-> << >>, raised |-> FALSE]

Min(a, b) == IF a <= b THEN a ELSE b

\* dict.get(key, default) on a record.
Get(d, key, default) == IF key \in DOMAIN d THEN d[key] ELSE default

\* text[:n] for a text kept as its length.
Prefix(len, n) == Min(len, n)

\* A command text: seg80 is cmd[:80], seg100 is cmd[80:100], seg200 is
\* cmd[100:200], rest is cmd[200:]; kw are the keyword sets its lower case hits.
Cmd(seg80, seg100, seg200, rest, kw) ==
    [seg80 |-> seg80, seg100 |-> seg100, seg200 |-> seg200, rest |-> rest, kw |-> kw]
Cut200(cmd) == [cmd EXCEPT !.rest = ""]
Cut100(cmd) == [cmd EXCEPT !.rest = "", !.seg200 = ""]
Cut80(cmd)  == [cmd EXCEPT !.rest = "", !.seg200 = "", !.seg100 = ""]
NoCmd == Cmd("", "", "", "", {})

\* A text written out: the sequence of its characters.
\* str.lower() on one character
Lower(c) ==
    CASE c = "A" -> "a"
      [] c = "B" -> "b"
      [] c = "C" -> "c"
      [] c = "D" -> "d"
      [] c = "E" -> "e"
      [] c = "F" -> "f"
      [] c = "G" -> "g"
      [] c = "H" -> "h"
      [] c = "I" -> "i"
      [] c = "J" -> "j"
      [] c = "K" -> "k"
      [] c = "L" -> "l"
      [] c = "M" -> "m"
      [] c = "N" -> "n"
      [] c = "O" -> "o"
      [] c = "P" -> "p"
      [] c = "Q" -> "q"
      [] c = "R" -> "r"
      [] c = "S" -> "s"
      [] c = "T" -> "t"
      [] c = "U" -> "u"
      [] c = "V" -> "v"
      [] c = "W" -> "w"
      [] c = "X" -> "x"
      [] c = "Y" -> "y"
      [] c = "Z" -> "z"
      [] OTHER -> c
LowerText(text) == [k \in DOMAIN text |-> Lower(text[k])]

\* `kw in text`
Contains(text, kw) ==
    \E k \in 1..(Len(text) - Len(kw) + 1) : SubSeq(text, k, k + Len(kw) - 1) = kw

\* lines 202-206
BuildKeywords ==
    {<<"d", "o", "t", "n", "e", "t", " ", "b", "u", "i", "l", "d">>,
     <<"d", "o", "t", "n", "e", "t", " ", "m", "s", "b", "u", "i", "l", "d">>,
     <<"m", "s", "b", "u", "i", "l", "d">>,
     <<"n", "p", "m", " ", "r", "u", "n", " ", "b", "u", "i", "l", "d">>,
     <<"c", "a", "r", "g", "o", " ", "b", "u", "i", "l", "d">>,
     <<"g", "o", " ", "b", "u", "i", "l", "d">>,
     <<"m", "a", "k", "e">>,
     <<"c", "m", "a", "k", "e">>,
     <<"g", "r", "a", "d", "l", "e", " ", "b", "u", "i", "l", "d">>,
     <<"m", "v", "n", " ", "c", "o", "m", "p", "i", "l", "e">>,
     <<"m", "v", "n", " ", "p", "a", "c", "k", "a", "g", "e">>,
     <<"t", "s", "c">>,
     <<"w", "e", "b", "p", "a", "c", "k">>}

\* lines 207-211
TestKeywords ==
    {<<"d", "o", "t", "n", "e", "t", " ", "t", "e", "s", "t">>,
     <<"n", "p", "m", " ", "t", "e", "s", "t">>,
     <<"n", "p", "m", " ", "r", "u", "n", " ", "t", "e", "s", "t">>,
     <<"c", "a", "r", "g", "o", " ", "t", "e", "s", "t">>,
     <<"g", "o", " ", "t", "e", "s", "t">>,
     <<"p", "y", "t", "e", "s", "t">>,
     <<"j", "e", "s", "t">>,
     <<"m", "o", "c", "h", "a">>,
     <<"x", "u", "n", "i", "t">>,
     <<"n", "u", "n", "i", "t">>,
     <<"g", "r", "a", "d", "l", "e", " ", "t", "e", "s", "t">>,
     <<"m", "v", "n", " ", "t", "e", "s", "t">>}

\* lines 201-211: is_build and is_test of a command text
KeywordsHit(text) ==
    LET cmd_lower == LowerText(text)
    IN  (IF \E kw \in BuildKeywords : Contains(cmd_lower, kw) THEN {"build"} ELSE {})
        \cup (IF \E kw \in TestKeywords : Contains(cmd_lower, kw) THEN {"test"} ELSE {})

\* a command of at most 80 characters, given as its text
Typed(text) == Cmd(text, "", "", "", KeywordsHit(text))

\* lines 145-155
on_session_start(p, evt) ==
    [p EXCEPT !.events.session_info =
        [id             |-> Get(evt.data, "sessionId", ""),
         copilotVersion |-> Get(evt.data, "copilotVersion", ""),
         startTime      |-> Get(evt.data, "startTime", evt.timestamp),
         cwd |-> "", gitRoot |-> "", branch |-> "", repository |-> ""]]

\* lines 157-163
on_user_message(p, evt) ==
    LET content == Get(evt.data, "content", 0)
    IN  [p EXCEPT !.events.user_messages =
            Append(@, [content_preview |-> Prefix(content, 200),
                       timestamp       |-> evt.timestamp,
                       full_length     |-> content])]

\* A slip: a turn start emits the turn it finds open.
on_turn_start_emits_open(p, evt) ==
    [p EXCEPT !.events.turns = IF p.current_turn # NoTurn
                               THEN Append(@, p.current_turn) ELSE @,
              !.current_turn =
                  [turnId |-> Get(evt.data, "turnId", ""), startTime |-> evt.timestamp,
                   endTime |-> TsNone, tool_calls |-> <<>>, message_count |-> 0]]

\* lines 165-172
on_turn_start(p, evt) ==
    [p EXCEPT !.current_turn =
        [turnId |-> Get(evt.data, "turnId", ""), startTime |-> evt.timestamp,
         endTime |-> TsNone, tool_calls |-> <<>>, message_count |-> 0]]

\* A slip: the turn end does not clear the open turn.
on_turn_end_keeps_open(p, evt) ==
    IF p.current_turn # NoTurn
    THEN [p EXCEPT !.events.turns =
                        Append(@, [p.current_turn EXCEPT !.endTime = evt.timestamp])]
    ELSE p

\* lines 174-178
on_turn_end(p, evt) ==
    IF p.current_turn # NoTurn
    THEN [p EXCEPT !.events.turns =
                        Append(@, [p.current_turn EXCEPT !.endTime = evt.timestamp]),
                   !.current_turn = NoTurn]
    ELSE p

\* lines 180-186
on_assistant_message(p, evt) ==
    IF p.current_turn # NoTurn
    THEN [p EXCEPT !.current_turn.message_count = @ + 1,
                   !.current_turn.tool_calls = @ \o Get(evt.data, "toolRequests", <<>>)]
    ELSE p

\* A slip: a command that hits both keyword lists is tagged build.
on_tool_start_build_first(p, evt) ==
    LET tool_name    == Get(evt.data, "toolName", "")
        tool_call_id == Get(evt.data, "toolCallId", "")
        args         == Get(evt.data, "arguments", << >>)
        cmd          == Get(args, "command", NoCmd)
        base         == [name |-> tool_name, timestamp |-> evt.timestamp,
                         arguments |-> args]
        seeded       == base @@ [dev_loop |->
                            [oid |-> evt.timestamp,
                             type |-> IF "build" \in cmd.kw THEN "build" ELSE "test",
                             command |-> Cut200(cmd),
                             description |-> Get(args, "description", ""),
                             startTime |-> evt.timestamp]]
        start        == IF tool_name = "bash" /\ cmd.kw # {} THEN seeded ELSE base
    IN  [p EXCEPT !.tool_start_map =
                        [k \in (DOMAIN @) \cup {tool_call_id} |->
                            IF k = tool_call_id THEN start ELSE @[k]],
                  !.events.tool_starts =
                        Append(@, [name |-> tool_name, timestamp |-> evt.timestamp,
                                   toolCallId |-> tool_call_id])]

\* lines 188-218
on_tool_start(p, evt) ==
    LET tool_name    == Get(evt.data, "toolName", "")
        tool_call_id == Get(evt.data, "toolCallId", "")
        args         == Get(evt.data, "arguments", << >>)
        cmd          == Get(args, "command", NoCmd)
        desc         == Get(args, "description", "")
        is_build     == "build" \in cmd.kw
        is_test      == "test" \in cmd.kw
        base         == [name |-> tool_name, timestamp |-> evt.timestamp,
                         arguments |-> args]
        \* oid names the dict object created here: the completion handler
        \* mutates that object, wherever it has been stored.
        seeded       == base @@ [dev_loop |->
                            [oid |-> evt.timestamp,
                             type |-> IF is_test THEN "test" ELSE "build",
                             command |-> Cut200(cmd), description |-> desc,
                             startTime |-> evt.timestamp]]
        start        == IF tool_name = "bash" /\ (is_build \/ is_test) THEN seeded ELSE base
    IN  [p EXCEPT !.tool_start_map =
                        [k \in (DOMAIN @) \cup {tool_call_id} |->
                            IF k = tool_call_id THEN start ELSE @[k]],
                  !.events.tool_starts =
                        Append(@, [name |-> tool_name, timestamp |-> evt.timestamp,
                                   toolCallId |-> tool_call_id])]

\* A result text, by what lines 237-256 look for in it:
\*   phrase  - it holds one of the failure phrases other than "error(s)"
\*   errors  - N of the first "<N> Error(s)", or -1 when there is none
\*   summary - whether "Passed! - Failed: <f>, Passed: <p>" occurs, with f and p
\*   tests_failed - it holds "test run failed" or "tests failed"
Result(phrase, errors, summary, f, pp, tests_failed) ==
    [phrase |-> phrase, errors |-> errors, summary |-> summary,
     failed |-> f, passed |-> pp, tests_failed |-> tests_failed]
NoResult == Result(FALSE, -1, FALSE, 0, 0, FALSE)

\* A slip: the error count does not take the phrase finding back.
build_failed_phrase_first(res) ==
    res.phrase \/ res.errors >= 0

\* lines 238-247: "<N> Error(s)" itself holds the phrase "error(s)"
build_failed(res) ==
    LET phrase_hit == res.phrase \/ res.errors >= 0
    IN  IF res.errors >= 0 THEN res.errors > 0 ELSE phrase_hit

\* lines 249-256
test_failed(res) ==
    IF res.summary THEN res.failed > 0 ELSE res.tests_failed

\* A slip: the record is put where its start time places it, not at the end.
on_tool_complete_by_start(p, evt) ==
    LET tool_call_id == Get(evt.data, "toolCallId", "")
        start_info   == Get(p.tool_start_map, tool_call_id, << >>)
        rec          == [toolCallId |-> tool_call_id,
                         name       |-> Get(start_info, "name", ""),
                         success    |-> Get(evt.data, "success", FALSE),
                         startTime  |-> Get(start_info, "timestamp", TsEmpty),
                         endTime    |-> evt.timestamp]
        before       == SelectSeq(p.events.tool_completes,
                                  LAMBDA r : r.startTime.t <= rec.startTime.t)
        after        == SelectSeq(p.events.tool_completes,
                                  LAMBDA r : r.startTime.t > rec.startTime.t)
    IN  [p EXCEPT !.events.tool_completes = before \o <<rec>> \o after]

\* A slip: a completion whose id has no recorded start is dropped.
on_tool_complete_drops_orphan(p, evt) ==
    LET tool_call_id == Get(evt.data, "toolCallId", "")
    IN  IF tool_call_id \notin DOMAIN p.tool_start_map THEN p
        ELSE LET start_info == p.tool_start_map[tool_call_id]
             IN  [p EXCEPT !.events.tool_completes =
                    Append(@, [toolCallId |-> tool_call_id,
                               name       |-> start_info.name,
                               success    |-> Get(evt.data, "success", FALSE),
                               startTime  |-> start_info.timestamp,
                               endTime    |-> evt.timestamp])]

\* lines 220-265
on_tool_complete(p, evt) ==
    LET tool_call_id == Get(evt.data, "toolCallId", "")
        success      == Get(evt.data, "success", FALSE)
        start_info   == Get(p.tool_start_map, tool_call_id, << >>)
        completes    == Append(p.events.tool_completes,
                            [toolCallId |-> tool_call_id,
                             name       |-> Get(start_info, "name", ""),
                             success    |-> success,
                             startTime  |-> Get(start_info, "timestamp", TsEmpty),
                             endTime    |-> evt.timestamp])
        withComplete == [p EXCEPT !.events.tool_completes = completes]
    IN  IF "dev_loop" \notin DOMAIN start_info THEN withComplete
        ELSE
        LET dl  == start_info.dev_loop
            res == Get(evt.data, "result", NoResult)
            dur          == compute_duration_ms(dl.startTime, evt.timestamp)
            base         == [oid |-> dl.oid, type |-> dl.type, command |-> dl.command,
                             description |-> dl.description, startTime |-> dl.startTime,
                             endTime |-> evt.timestamp, duration_ms |-> dur,
                             success |-> success /\ ~build_failed(res) /\ ~test_failed(res),
                             result_preview |-> res]
            done         == IF res.summary
                            THEN base @@ [test_failed |-> res.failed,
                                          test_passed |-> res.passed]
                            ELSE IF "test_failed" \in DOMAIN dl
                                 THEN base @@ [test_failed |-> dl.test_failed,
                                               test_passed |-> dl.test_passed]
                                 ELSE base
            \* dl is the object stored in the map: entries of the list that are
            \* this same object show the mutation too.
            aliased(d)   == IF d.oid = dl.oid THEN done ELSE d
        IN  IF dur.raised THEN [withComplete EXCEPT !.raised = TRUE]
            ELSE [withComplete EXCEPT
                    !.tool_start_map[tool_call_id].dev_loop = done,
                    !.events.dev_loop =
                        Append([k \in DOMAIN @ |-> aliased(@[k])], done)]

\* lines 267-274
on_subagent_started(p, evt) ==
    [p EXCEPT !.events.subagents =
        Append(@, [toolCallId  |-> Get(evt.data, "toolCallId", ""),
                   name        |-> Get(evt.data, "agentName", ""),
                   displayName |-> Get(evt.data, "agentDisplayName", ""),
                   startTime   |-> evt.timestamp,
                   endTime     |-> TsNone])]

\* A slip: the completion does not look whether the subagent has ended.
on_subagent_completed_any(p, evt) ==
    LET tcid == Get(evt.data, "toolCallId", "")
        sas  == p.events.subagents
        hits == {k \in DOMAIN sas : sas[k].toolCallId = tcid}
    IN  IF hits = {} THEN p
        ELSE LET first == CHOOSE k \in hits : \A j \in hits : k <= j
             IN  [p EXCEPT !.events.subagents[first].endTime = evt.timestamp]

\* lines 276-281
on_subagent_completed(p, evt) ==
    LET tcid == Get(evt.data, "toolCallId", "")
        sas  == p.events.subagents
        hits == {k \in DOMAIN sas : sas[k].toolCallId = tcid /\ sas[k].endTime = TsNone}
    IN  IF hits = {} THEN p
        ELSE LET first == CHOOSE k \in hits : \A j \in hits : k <= j
             IN  [p EXCEPT !.events.subagents[first].endTime = evt.timestamp]

\* lines 283-284
on_compaction_start(p, evt) ==
    [p EXCEPT !.events.compactions =
        Append(@, [startTime |-> evt.timestamp, endTime |-> TsNone,
                   preTokens |-> -1, success |-> "None"])]

\* lines 286-292 (preTokens -1 and success "None" stand for Python's None)
on_compaction_complete(p, evt) ==
    LET cs == p.events.compactions
    IN  IF cs # <<>> /\ cs[Len(cs)].endTime = TsNone
        THEN [p EXCEPT !.events.compactions[Len(cs)] =
                [@ EXCEPT !.endTime   = evt.timestamp,
                          !.preTokens = Get(evt.data, "preCompactionTokens", -1),
                          !.success   = Get(evt.data, "success", "False")]]
        ELSE p

\* lines 294-299
on_session_error(p, evt) ==
    [p EXCEPT !.events.errors =
        Append(@, [type      |-> Get(evt.data, "errorType", ""),
                   message   |-> Prefix(Get(evt.data, "message", 0), 300),
                   timestamp |-> evt.timestamp])]

\* lines 301-302
on_mode_changed(p, evt) ==
    [p EXCEPT !.events.mode_changes = Append(@, [timestamp |-> evt.timestamp,
                                                 data |-> evt.data])]

\* lines 304-305
on_plan_changed(p, evt) == [p EXCEPT !.events.plan_changes = @ + 1]

\* lines 307-308
on_task_complete(p, evt) == [p EXCEPT !.events.task_completes = @ + 1]

\* The end of the if/elif chain (line 308): no branch matches, nothing happens.
on_unknown_type(p, evt) == p

\* One iteration of the loop of lines 132-308 on parse state p.
Step(p, l) ==
    IF l.raw \in {"blank", "garbage"} THEN p
    ELSE IF l.raw \in {"deep", "scalar"} THEN [p EXCEPT !.raised = TRUE]
    ELSE LET evt == l.evt
         IN  CASE evt.type = "session.start"               -> on_session_start(p, evt)
               [] evt.type = "user.message"                -> on_user_message(p, evt)
               [] evt.type = "assistant.turn_start"        -> on_turn_start(p, evt)
               [] evt.type = "assistant.turn_end"          -> on_turn_end(p, evt)
               [] evt.type = "assistant.message"           -> on_assistant_message(p, evt)
               [] evt.type = "tool.execution_start"        -> on_tool_start(p, evt)
               [] evt.type = "tool.execution_complete"     -> on_tool_complete(p, evt)
               [] evt.type = "subagent.started"            -> on_subagent_started(p, evt)
               [] evt.type = "subagent.completed"          -> on_subagent_completed(p, evt)
               [] evt.type = "session.compaction_start"    -> on_compaction_start(p, evt)
               [] evt.type = "session.compaction_complete" -> on_compaction_complete(p, evt)
               [] evt.type = "session.error"               -> on_session_error(p, evt)
               [] evt.type = "session.mode_changed"        -> on_mode_changed(p, evt)
               [] evt.type = "session.plan_changed"        -> on_plan_changed(p, evt)
               [] evt.type = "session.task_complete"       -> on_task_complete(p, evt)
               [] OTHER                                    -> on_unknown_type(p, evt)

(***************************************************************************)
(* parse_process_log (lines 313-384).                                      *)
(*                                                                         *)
(* A log line is [prefix, text]: prefix is "ts" when the line opens with   *)
(* an ISO timestamp and white space ("2026-01-01T10:00:00.000Z "), "" when *)
(* it does not.  The texts:                                                *)
(*   MARK   [INFO] [Telemetry] cli.telemetry:                              *)
(*   NOISE  [INFO] some other message                                      *)
(*   OPEN   {"kind": "assistant_usage", "session_id": "S",                 *)
(*   CLOSE  "metrics": {"input_tokens": 200, "cache_read_tokens": 1000,    *)
(*                      "duration": 40, "cost": 2}}                        *)
(*   USAGE  {"kind": "assistant_usage", "session_id": "S",                 *)
(*           "properties": {"model": "claude-sonnet-4.5"},                 *)
(*           "metrics": {"input_tokens": 1000, "cache_read_tokens": 200,   *)
(*                       "output_tokens": 100, "duration": 70}}            *)
(*   OTHERKIND     {"kind": "session_usage", "session_id": "S"}            *)
(*   OTHERSESSION  {"kind": "assistant_usage", "session_id": "T",          *)
(*                  "metrics": {"input_tokens": 5}}                        *)
(***************************************************************************)
LogLine(prefix, text) == [prefix |-> prefix, text |-> text]

LogAlphabet ==
    {LogLine("ts", "MARK"), LogLine("ts", "NOISE"), LogLine("ts", "OPEN"),
     LogLine("", "CLOSE"), LogLine("", "USAGE"), LogLine("", "OTHERKIND"),
     LogLine("ts", "OTHERSESSION")}

\* "[Telemetry] cli.telemetry:" in lines[i]
HasMarker(l) == l.text = "MARK"

\* re.sub(r'^\d{4}-\d{2}-\d{2}T[\d:.]+Z\s*', '', line)
Strip(l) == IF l.prefix = "ts" THEN LogLine("", l.text) ELSE l

\* stripped.strip().startswith("{")
StartsWithBrace(l) ==
    l.prefix = "" /\ l.text \in {"OPEN", "USAGE", "OTHERKIND", "OTHERSESSION"}

\* stripped.count("{") and stripped.count("}")
CountOpen(l) ==
    CASE l.text = "OPEN" -> 1 [] l.text = "CLOSE" -> 1 [] l.text = "USAGE" -> 3
      [] l.text = "OTHERKIND" -> 1 [] l.text = "OTHERSESSION" -> 2 [] OTHER -> 0
CountClose(l) ==
    CASE l.text = "OPEN" -> 0 [] l.text = "CLOSE" -> 2 [] l.text = "USAGE" -> 3
      [] l.text = "OTHERKIND" -> 1 [] l.text = "OTHERSESSION" -> 2 [] OTHER -> 0

JSONDecodeError == [error |-> "JSONDecodeError"]

Texts(ls) == [k \in DOMAIN ls |-> ls[k].text]

\* json.loads("\n".join(json_lines)): of the texts above only a lone USAGE,
\* OTHERKIND or OTHERSESSION line, or OPEN directly followed by CLOSE, is one
\* JSON value; a timestamp left on a line makes the text no JSON at all.
JsonLoads(ls) ==
    IF \E k \in DOMAIN ls : ls[k].prefix # "" THEN JSONDecodeError
    ELSE CASE Texts(ls) = <<"USAGE">> ->
                [kind |-> "assistant_usage", session_id |-> "S",
                 properties |-> [model |-> "claude-sonnet-4.5"],
                 metrics |-> [input_tokens |-> 1000, cache_read_tokens |-> 200,
                              output_tokens |-> 100, duration |-> 70]]
           [] Texts(ls) = <<"OPEN", "CLOSE">> ->
                [kind |-> "assistant_usage", session_id |-> "S",
                 metrics |-> [input_tokens |-> 200, cache_read_tokens |-> 1000,
                              duration |-> 40, cost |-> 2]]
           [] Texts(ls) = <<"OTHERKIND">> ->
                [kind |-> "session_usage", session_id |-> "S"]
           [] Texts(ls) = <<"OTHERSESSION">> ->
                [kind |-> "assistant_usage", session_id |-> "T",
                 metrics |-> [input_tokens |-> 5]]
           [] OTHER -> JSONDecodeError

\* lines 372-382: the LLMCall of one block
LLMCall(block) ==
    LET props   == Get(block, "properties", << >>)
        metrics == Get(block, "metrics", << >>)
    IN  [model              |-> Get(props, "model", "unknown"),
         initiator          |-> Get(props, "initiator", "unknown"),
         api_call_id        |-> Get(props, "api_call_id", ""),
         input_tokens       |-> Get(metrics, "input_tokens", 0),
         output_tokens      |-> Get(metrics, "output_tokens", 0),
         cache_read_tokens  |-> Get(metrics, "cache_read_tokens", 0),
         cache_write_tokens |-> Get(metrics, "cache_write_tokens", 0),
         cost               |-> Get(metrics, "cost", 0),
         duration_ms        |-> Get(metrics, "duration", 0)]

\* lines 364-370: whether the block survives the session filter
KeepsBlock(block, session_id) ==
    ~(session_id # "" /\ Get(block, "session_id", "") # session_id)

RECURSIVE CallsOf(_, _)
\* lines 364-384
CallsOf(bs, session_id) ==
    IF bs = <<>> THEN <<>>
    ELSE (IF KeepsBlock(Head(bs), session_id) THEN <<LLMCall(Head(bs))>> ELSE <<>>)
         \o CallsOf(Tail(bs), session_id)

(***************************************************************************)
(* build_summary (lines 419-618).                                          *)
(*                                                                         *)
(* A number that may be None, or whose computation may raise, is a record  *)
(* [err, none, v]: err names the exception ("" when there is none).        *)
(***************************************************************************)
Val(v)  == [err |-> "", none |-> FALSE, v |-> v]
ValNone == [err |-> "", none |-> TRUE, v |-> 0]
Raise(e) == [err |-> e, none |-> FALSE, v |-> 0]

\* x / unit rounded to the nearest integer, as Python computes and rounds it:
\* a zero divisor raises.
Div(x, unit, up) == IF unit = 0 THEN Raise("ZeroDivisionError") ELSE Val(Round(x, unit, up))

\* round(x / n) with no digits: the quotient of a tie is exact, and goes to even.
RoundHalfEven(x, n) ==
    LET q == x \div n
        r == x % n
    IN  IF 2 * r > n THEN q + 1
        ELSE IF 2 * r < n THEN q
        ELSE IF q % 2 = 0 THEN q ELSE q + 1

DivHalfEven(x, n) == IF n = 0 THEN Raise("ZeroDivisionError") ELSE Val(RoundHalfEven(x, n))

RECURSIVE Sum(_)
Sum(ns) == IF ns = <<>> THEN 0 ELSE Head(ns) + Sum(Tail(ns))

Field(sq, f) == [k \in DOMAIN sq |-> sq[k][f]]

\* `not x` for a timestamp value
Falsy(ts) == ts.k \in {"None", "empty"}

\* a < b for two timestamp strings of the same ISO format
TsLess(a, b) == a.t < b.t

\* lines 441 and 594, in tenths of a percent
CacheHitRate(total_cache_read, total_input, up) ==
    IF total_input > 0 THEN Div(total_cache_read * 1000, total_input, up) ELSE Val(0)

\* line 596
AvgDuration(total_duration, calls) ==
    IF calls # <<>> THEN DivHalfEven(total_duration, Len(calls)) ELSE Val(0)

\* lines 444 and 597-601: max() keeps the first of the longest calls
Longest(calls) ==
    IF calls = <<>> THEN [none |-> TRUE]
    ELSE LET k == CHOOSE k \in DOMAIN calls :
                    /\ \A j \in DOMAIN calls : calls[j].duration_ms <= calls[k].duration_ms
                    /\ \A j \in 1..(k - 1) : calls[j].duration_ms < calls[k].duration_ms
         IN  [none |-> FALSE, duration_ms |-> calls[k].duration_ms,
              model |-> calls[k].model, initiator |-> calls[k].initiator]

\* A slip: the estimate adds up the cost fields of the telemetry.
TotalCostFromTelemetry(calls, up) ==
    Sum([k \in DOMAIN calls |-> calls[k].cost * 1000000])

\* lines 452-455, in micro-dollars
TotalCost(calls, up) ==
    Sum([k \in DOMAIN calls |->
            compute_cost(calls[k].input_tokens, calls[k].output_tokens,
                         calls[k].cache_read_tokens, calls[k].model, up)])

\* lines 554-555, in tenths of a percent
SuccessRate(all, failures, up) ==
    IF all # <<>> THEN Div((Len(all) - Len(failures)) * 1000, Len(all), up) ELSE ValNone

Succeeded(d) == Get(d, "success", TRUE)

FixCycle(cycle, resolution) ==
    [failures |-> Len(cycle), first_failure |-> cycle[1].startTime,
     resolution |-> resolution, command_preview |-> Cut100(cycle[1].command)]

RECURSIVE FixCyclesFromOne(_, _)
\* A slip: a single failure already makes a cycle.
FixCyclesFromOne(bs, cycle) ==
    IF bs = <<>>
    THEN IF Len(cycle) >= 1 THEN <<FixCycle(cycle, TsNone)>> ELSE <<>>
    ELSE LET b == Head(bs)
         IN  IF ~Succeeded(b) THEN FixCyclesFromOne(Tail(bs), Append(cycle, b))
             ELSE (IF Len(cycle) >= 1 THEN <<FixCycle(cycle, b.startTime)>> ELSE <<>>)
                  \o FixCyclesFromOne(Tail(bs), <<>>)

RECURSIVE FixCycles(_, _)
\* lines 494-516: bs are the builds still to scan, cycle is current_cycle
FixCycles(bs, cycle) ==
    IF bs = <<>>
    THEN IF Len(cycle) >= 2 THEN <<FixCycle(cycle, TsNone)>> ELSE <<>>
    ELSE LET b == Head(bs)
         IN  IF ~Succeeded(b) THEN FixCycles(Tail(bs), Append(cycle, b))
             ELSE (IF Len(cycle) >= 2 THEN <<FixCycle(cycle, b.startTime)>> ELSE <<>>)
                  \o FixCycles(Tail(bs), <<>>)

\* A slip: only a build that follows a successful build can be redundant.
IsRedundantAfterSuccess(prev_build, b, edit_timestamps) ==
    /\ Succeeded(prev_build)
    /\ Succeeded(b)
    /\ Cut80(prev_build.command) = Cut80(b.command)
    /\ LET prev_end   == Get(prev_build, "endTime", prev_build.startTime)
           curr_start == b.startTime
       IN  ~\E et \in edit_timestamps : TsLess(prev_end, et) /\ TsLess(et, curr_start)

\* lines 530-541: whether build b, coming right after prev_build, is redundant
IsRedundant(prev_build, b, edit_timestamps) ==
    /\ Succeeded(b)
    /\ Cut80(prev_build.command) = Cut80(b.command)
    /\ LET prev_end   == Get(prev_build, "endTime", prev_build.startTime)
           curr_start == b.startTime
       IN  ~\E et \in edit_timestamps : TsLess(prev_end, et) /\ TsLess(et, curr_start)

\* lines 518-542
RedundantBuilds(builds, completes) ==
    IF Len(builds) >= 2
    THEN LET edit_timestamps ==
                {completes[k].endTime :
                    k \in {j \in DOMAIN completes : completes[j].name \in {"edit", "create"}}}
         IN  Cardinality({k \in 2..Len(builds) :
                            IsRedundant(builds[k - 1], builds[k], edit_timestamps)})
    ELSE 0

CountOf(sq, name) == Cardinality({k \in DOMAIN sq : sq[k].name = name})

\* lines 419-618.  A duration that raises (compute_duration_ms on an aware and
\* a naive timestamp) or a division by zero leaves build_summary by exception.
build_summary(ev, calls, up) ==
    LET session  == ev.session_info
        turn_end == IF ev.turns # <<>> THEN ev.turns[Len(ev.turns)].endTime ELSE TsNone
        end_time == IF Falsy(turn_end) /\ ev.user_messages # <<>>
                    THEN ev.user_messages[Len(ev.user_messages)].timestamp
                    ELSE turn_end
        total_input       == Sum(Field(calls, "input_tokens"))
        total_output      == Sum(Field(calls, "output_tokens"))
        total_cache_read  == Sum(Field(calls, "cache_read_tokens"))
        total_cache_write == Sum(Field(calls, "cache_write_tokens"))
        total_duration    == Sum(Field(calls, "duration_ms"))
        cache_hit_rate    == CacheHitRate(total_cache_read, total_input, up)
        avg_duration      == AvgDuration(total_duration, calls)
        total_cost        == TotalCost(calls, up)
        user_turns   == Len(ev.user_messages)
        total_turns  == Len(ev.turns)
        agent_turns  == total_turns - user_turns
        completes    == ev.tool_completes
        tool_durs    == [k \in DOMAIN completes |->
                            compute_duration_ms(completes[k].startTime, completes[k].endTime)]
        long_tools   == SelectSeq([k \in DOMAIN completes |->
                                      [name |-> completes[k].name, dur |-> tool_durs[k]]],
                                  LAMBDA t : ~t.dur.raised /\ ~t.dur.none /\ t.dur.ms > 60000)
        sub_durs     == [k \in DOMAIN ev.subagents |->
                            compute_duration_ms(ev.subagents[k].startTime,
                                                ev.subagents[k].endTime)]
        session_dur  == compute_duration_ms(Get(session, "startTime", TsNone), end_time)
        dev_loop     == ev.dev_loop
        builds       == SelectSeq(dev_loop, LAMBDA d : d.type = "build")
        tests        == SelectSeq(dev_loop, LAMBDA d : d.type = "test")
        build_failures == SelectSeq(builds, LAMBDA d : ~Succeeded(d))
        test_failures  == SelectSeq(tests, LAMBDA d : ~Succeeded(d))
        fix_cycles   == FixCycles(builds, <<>>)
        redundant    == RedundantBuilds(builds, completes)
        edit_count   == CountOf(completes, "edit") + CountOf(completes, "create")
        build_rate   == SuccessRate(builds, build_failures, up)
        test_rate    == SuccessRate(tests, test_failures, up)
        ms(d)        == IF d.duration_ms.none THEN 0 ELSE d.duration_ms.ms
        errs == {cache_hit_rate.err, avg_duration.err, build_rate.err, test_rate.err}
                \cup {IF tool_durs[k].raised THEN "TypeError" ELSE "" : k \in DOMAIN tool_durs}
                \cup {IF sub_durs[k].raised THEN "TypeError" ELSE "" : k \in DOMAIN sub_durs}
                \cup {IF session_dur.raised THEN "TypeError" ELSE ""}
    IN  IF errs \ {""} # {}
        THEN [raised |-> TRUE, error |-> CHOOSE e \in errs \ {""} : TRUE]
        ELSE
        [raised |-> FALSE,
         endTime |-> end_time,
         llm_calls |-> calls,
         turns |-> [total |-> total_turns, user_initiated |-> user_turns,
                    agent_initiated |-> agent_turns],
         tool_calls |-> [total |-> Len(completes),
                         by_name |-> [n \in {completes[k].name : k \in DOMAIN completes}
                                        |-> CountOf(completes, n)],
                         long_running |-> long_tools],
         subagents |-> sub_durs,
         dev_loop_summary |->
            [total_builds |-> Len(builds), total_tests |-> Len(tests),
             build_failures |-> Len(build_failures), test_failures |-> Len(test_failures),
             build_success_rate_pct |-> build_rate, test_success_rate_pct |-> test_rate,
             fix_cycles |-> fix_cycles, redundant_builds |-> redundant,
             total_build_time_ms |-> Sum([k \in DOMAIN builds |-> ms(builds[k])]),
             total_test_time_ms |-> Sum([k \in DOMAIN tests |-> ms(tests[k])]),
             edits_without_validation |->
                IF edit_count > 0 THEN Max(0, edit_count - (Len(builds) + Len(tests))) ELSE 0,
             total_passed |-> Sum([k \in DOMAIN tests |-> Get(tests[k], "test_passed", 0)]),
             total_failed |-> Sum([k \in DOMAIN tests |-> Get(tests[k], "test_failed", 0)])],
         summary |->
            [total_llm_calls |-> Len(calls), total_input_tokens |-> total_input,
             total_output_tokens |-> total_output,
             total_cache_read_tokens |-> total_cache_read,
             total_cache_write_tokens |-> total_cache_write,
             cache_hit_rate_pct |-> cache_hit_rate.v,
             total_llm_duration_ms |-> total_duration,
             avg_llm_duration_ms |-> avg_duration.v,
             longest_call |-> Longest(calls),
             models_used |-> [m \in {calls[k].model : k \in DOMAIN calls} |->
                                Cardinality({k \in DOMAIN calls : calls[k].model = m})],
             estimated_cost_usd |-> Round(total_cost, 100, up),
             session_duration_ms |-> session_dur,
             total_turns |-> total_turns, user_turns |-> user_turns,
             agent_turns |-> agent_turns, fix_cycles |-> Len(fix_cycles)]]

NoReport == [none |-> TRUE]

(***************************************************************************)
(* compute_cost under study: Init draws the arguments, the action calls.   *)
(***************************************************************************)
TokenCounts == {0, 1, 5, 200, 1000}
ModelIds == DOMAIN MODEL_PRICING \cup {"some-unlisted-model"}

CostIdleIn  == [input_tokens |-> 0, output_tokens |-> 0, cache_read_tokens |-> 0,
                model |-> "none"]
CostIdleOut == [done |-> FALSE, cost |-> 0, up |-> FALSE]
DurIdleIn   == [start_ts |-> TsNone, end_ts |-> TsNone]
DurIdleOut  == [done |-> FALSE, dur |-> DurNone]

(***************************************************************************)
(* The run (main, lines 641-662): parse_events, then parse_process_log,    *)
(* then build_summary.  pc names the stage.                                *)
(***************************************************************************)
\* Values of the variables a specification does not use.
IdleParse ==
    /\ events = EmptyEvents
    /\ current_turn = NoTurn
    /\ tool_start_map = << >>
    /\ stream = <<>>
    /\ nread = 0
IdleScan ==
    /\ i = 0
    /\ json_lines = <<>>
    /\ brace_count = 0
    /\ started = FALSE
    /\ blocks = <<>>
IdleLog ==
    /\ log_path = "None"
    /\ lines = <<>>
    /\ IdleScan
    /\ llm_calls = <<>>
IdleFun ==
    /\ cost_in = CostIdleIn
    /\ cost_out = CostIdleOut
    /\ dur_in = DurIdleIn
    /\ dur_out = DurIdleOut

\* ---- parse_events, one action per branch of its loop ----

Blank   == [raw |-> "blank"]
Garbage == [raw |-> "garbage"]
Deep    == [raw |-> "deep"]
Scalar  == [raw |-> "scalar"]
Event(type, data) == [raw |-> "object", evt |-> [type |-> type, data |-> data]]

\* The file as written: its k-th line carries the k-th reading of the clock.
Stamp(l, k) ==
    IF l.raw = "object" THEN [l EXCEPT !.evt = @ @@ [timestamp |-> Ts("Z", k, 0)]] ELSE l
StreamOf(sq) == [k \in DOMAIN sq |-> Stamp(sq[k], k)]

KnownTypes ==
    {"session.start", "user.message", "assistant.turn_start", "assistant.turn_end",
     "assistant.message", "tool.execution_start", "tool.execution_complete",
     "subagent.started", "subagent.completed", "session.compaction_start",
     "session.compaction_complete", "session.error", "session.mode_changed",
     "session.plan_changed", "session.task_complete"}

IsEvent(l, type) == l.raw = "object" /\ l.evt.type = type
IsUnknown(l)     == l.raw = "object" /\ l.evt.type \notin KnownTypes

\* lines 132-308: the loop body runs on the next line of the file; an exception
\* leaves parse_events and, uncaught by main, ends the run
ReadLine ==
    /\ pc = "parse_events"
    /\ nread < Len(stream)
    /\ LET q == Step([events |-> events, current_turn |-> current_turn,
                      tool_start_map |-> tool_start_map, raised |-> FALSE],
                     stream[nread + 1])
       IN  /\ events' = q.events
           /\ current_turn' = q.current_turn
           /\ tool_start_map' = q.tool_start_map
           /\ pc' = IF q.raised THEN "raised" ELSE "parse_events"
    /\ nread' = nread + 1
    /\ UNCHANGED <<stream, logVars, report, funVars>>

Next1(raw)   == nread < Len(stream) /\ stream[nread + 1].raw = raw
NextIs(type) == nread < Len(stream) /\ IsEvent(stream[nread + 1], type)

\* lines 134-135
SkipBlank == Next1("blank") /\ ReadLine
\* lines 136-139, json.loads raising JSONDecodeError
SkipGarbage == Next1("garbage") /\ ReadLine
\* lines 136-139, json.loads raising anything else
JsonLoadsRaises == Next1("deep") /\ ReadLine
\* line 141, on a JSON value that has no get
NotAnObject == Next1("scalar") /\ ReadLine
SessionStart == NextIs("session.start") /\ ReadLine
UserMessage == NextIs("user.message") /\ ReadLine
TurnStart == NextIs("assistant.turn_start") /\ ReadLine
TurnEnd == NextIs("assistant.turn_end") /\ ReadLine
AssistantMessage == NextIs("assistant.message") /\ ReadLine
ToolStart == NextIs("tool.execution_start") /\ ReadLine
ToolComplete == NextIs("tool.execution_complete") /\ ReadLine
SubagentStarted == NextIs("subagent.started") /\ ReadLine
SubagentCompleted == NextIs("subagent.completed") /\ ReadLine
CompactionStart == NextIs("session.compaction_start") /\ ReadLine
CompactionComplete == NextIs("session.compaction_complete") /\ ReadLine
SessionError == NextIs("session.error") /\ ReadLine
ModeChanged == NextIs("session.mode_changed") /\ ReadLine
PlanChanged == NextIs("session.plan_changed") /\ ReadLine
TaskComplete == NextIs("session.task_complete") /\ ReadLine
UnknownType == nread < Len(stream) /\ IsUnknown(stream[nread + 1]) /\ ReadLine

\* line 310: the file is exhausted, parse_events returns
EndOfEvents ==
    /\ pc = "parse_events"
    /\ nread = Len(stream)
    /\ pc' = "parse_process_log"
    /\ UNCHANGED <<evVars, logVars, report, funVars>>

\* ---- parse_process_log, one action per step of its loops ----

\* lines 316-317: no log path, no calls
NoProcessLog ==
    /\ pc = "parse_process_log"
    /\ log_path = "None"
    /\ llm_calls' = <<>>
    /\ pc' = "build_summary"
    /\ UNCHANGED <<evVars, log_path, lines, scanVars, report, funVars>>

\* lines 320-332: the file is read and split, the scan starts at line 0
OpenProcessLog ==
    /\ pc = "parse_process_log"
    /\ log_path # "None"
    /\ i' = 0
    /\ blocks' = <<>>
    /\ pc' = "scan"
    /\ UNCHANGED <<evVars, log_path, lines, json_lines, brace_count, started,
                   llm_calls, report, funVars>>

\* lines 333-334 and 361: a line without the marker is passed over
SeekMarker ==
    /\ pc = "scan"
    /\ i < Len(lines)
    /\ ~HasMarker(lines[i + 1])
    /\ i' = i + 1
    /\ UNCHANGED <<pc, evVars, log_path, lines, json_lines, brace_count, started,
                   blocks, llm_calls, report, funVars>>

\* lines 334-339: a marker line starts the collection of a block
FoundMarker ==
    /\ pc = "scan"
    /\ i < Len(lines)
    /\ HasMarker(lines[i + 1])
    /\ json_lines' = <<>>
    /\ i' = i + 1
    /\ brace_count' = 0
    /\ started' = FALSE
    /\ pc' = "collect"
    /\ UNCHANGED <<evVars, log_path, lines, blocks, llm_calls, report, funVars>>

\* lines 340-353, a line before the block has started that does not start it:
\* neither `if started` nor `elif started` holds, and the index moves on
SeekBlock ==
    /\ pc = "collect"
    /\ i < Len(lines)
    /\ ~started
    /\ ~StartsWithBrace(Strip(lines[i + 1]))
    /\ i' = i + 1
    /\ UNCHANGED <<pc, evVars, log_path, lines, json_lines, brace_count, started,
                   blocks, llm_calls, report, funVars>>

\* A slip: the index is not moved on after a line of the block is taken.
AccumulateStays ==
    /\ pc = "collect"
    /\ i < Len(lines)
    /\ LET stripped == Strip(lines[i + 1])
           count    == brace_count + CountOpen(stripped) - CountClose(stripped)
       IN  /\ started \/ StartsWithBrace(stripped)
           /\ count > 0
           /\ started' = TRUE
           /\ json_lines' = Append(json_lines, stripped)
           /\ brace_count' = count
           /\ i' = i
    /\ UNCHANGED <<pc, evVars, log_path, lines, blocks, llm_calls, report, funVars>>

\* lines 340-353, a line of the block that leaves braces open
Accumulate ==
    /\ pc = "collect"
    /\ i < Len(lines)
    /\ LET stripped == Strip(lines[i + 1])
           count    == brace_count + CountOpen(stripped) - CountClose(stripped)
       IN  /\ started \/ StartsWithBrace(stripped)
           /\ count > 0
           /\ started' = TRUE
           /\ json_lines' = Append(json_lines, stripped)
           /\ brace_count' = count
           /\ i' = i + 1
    /\ UNCHANGED <<pc, evVars, log_path, lines, blocks, llm_calls, report, funVars>>

\* lines 340-350, the line on which the brace count returns to zero or less
CloseBlock ==
    /\ pc = "collect"
    /\ i < Len(lines)
    /\ LET stripped == Strip(lines[i + 1])
           count    == brace_count + CountOpen(stripped) - CountClose(stripped)
       IN  /\ started \/ StartsWithBrace(stripped)
           /\ count <= 0
           /\ started' = TRUE
           /\ json_lines' = Append(json_lines, stripped)
           /\ brace_count' = count
    /\ pc' = "parse_block"
    /\ UNCHANGED <<evVars, log_path, lines, i, blocks, llm_calls, report, funVars>>

\* line 340: the input ends while a block is sought or collected
EndOfLogInBlock ==
    /\ pc = "collect"
    /\ i >= Len(lines)
    /\ pc' = "parse_block"
    /\ UNCHANGED <<evVars, logVars, report, funVars>>

\* lines 354-361: the candidate parses and is of the usage kind
KeepBlock ==
    /\ pc = "parse_block"
    /\ json_lines # <<>>
    /\ LET block == JsonLoads(json_lines)
       IN  /\ block # JSONDecodeError
           /\ Get(block, "kind", "") = "assistant_usage"
           /\ blocks' = Append(blocks, block)
    /\ i' = i + 1
    /\ pc' = "scan"
    /\ UNCHANGED <<evVars, log_path, lines, json_lines, brace_count, started,
                   llm_calls, report, funVars>>

\* lines 354-361: nothing collected, a parse failure or another kind
DiscardBlock ==
    /\ pc = "parse_block"
    /\ \/ json_lines = <<>>
       \/ JsonLoads(json_lines) = JSONDecodeError
       \/ Get(JsonLoads(json_lines), "kind", "") # "assistant_usage"
    /\ i' = i + 1
    /\ pc' = "scan"
    /\ UNCHANGED <<evVars, log_path, lines, json_lines, brace_count, started,
                   blocks, llm_calls, report, funVars>>

\* line 643: the session id the run filters by
SessionId == Get(events.session_info, "id", "session-dir-name")

\* lines 333 and 364-384: the scan is over, the blocks become LLMCalls
EndOfLog ==
    /\ pc = "scan"
    /\ i >= Len(lines)
    /\ llm_calls' = CallsOf(blocks, SessionId)
    /\ pc' = "build_summary"
    /\ UNCHANGED <<evVars, log_path, lines, scanVars, report, funVars>>

\* ---- build_summary ----

\* line 662
BuildSummary ==
    /\ pc = "build_summary"
    /\ \E up \in BOOLEAN :
          /\ report' = build_summary(events, llm_calls, up)
          /\ pc' = IF report'.raised THEN "raised" ELSE "done"
    /\ UNCHANGED <<evVars, logVars, funVars>>

(***************************************************************************)
(* The telemetry extractor under study: the events file held one           *)
(* session.start of session "S"; Init draws the process log.               *)
(***************************************************************************)
SessionS ==
    [EmptyEvents EXCEPT !.session_info =
        [id |-> "S", copilotVersion |-> "", startTime |-> Ts("Z", 0, 0),
         cwd |-> "", gitRoot |-> "", branch |-> "", repository |-> ""]]

RECURSIVE SeqsUpTo(_, _)
\* every sequence over S of length at most n
SeqsUpTo(S, n) ==
    IF n = 0 THEN {<<>>}
    ELSE LET shorter == SeqsUpTo(S, n - 1)
         IN  shorter \cup {Append(sq, x) : sq \in {t \in shorter : Len(t) = n - 1}, x \in S}

InitLog ==
    /\ pc = "parse_process_log"
    /\ events = SessionS
    /\ current_turn = NoTurn
    /\ tool_start_map = << >>
    /\ stream = <<>>
    /\ nread = 0
    /\ log_path = "log"
    /\ lines \in SeqsUpTo(LogAlphabet, MaxLogLines)
    /\ IdleScan
    /\ llm_calls = <<>>
    /\ report = NoReport
    /\ IdleFun

NextLog ==
    \/ OpenProcessLog
    \/ SeekMarker
    \/ FoundMarker
    \/ SeekBlock
    \/ Accumulate
    \/ CloseBlock
    \/ EndOfLogInBlock
    \/ KeepBlock
    \/ DiscardBlock
    \/ EndOfLog
    \/ BuildSummary

SpecLog == InitLog /\ [][NextLog]_vars

(***************************************************************************)
(* Claims about the telemetry extractor (checked under SpecLog).           *)
(*                                                                         *)
(* The blocks of a log, told from the text alone: a candidate block starts *)
(* at a line that begins with "{" and follows a marker line with nothing   *)
(* but lines that start no block in between; it is a usage block when some *)
(* run of lines from there is one JSON object of the usage kind.           *)
(***************************************************************************)
Stripped(k, e) == [j \in 1..(e - k + 1) |-> Strip(lines[k + j - 1])]

FollowsMarker(k) ==
    \E m \in 1..(k - 1) :
        /\ HasMarker(lines[m])
        /\ \A j \in (m + 1)..(k - 1) : ~StartsWithBrace(Strip(lines[j]))

CandidateAt(k) == StartsWithBrace(Strip(lines[k])) /\ FollowsMarker(k)

UsageEnds(k) ==
    {e \in k..Len(lines) :
        /\ JsonLoads(Stripped(k, e)) # JSONDecodeError
        /\ Get(JsonLoads(Stripped(k, e)), "kind", "") = "assistant_usage"}

\* a well-formed usage block starts at line k
UsageAt(k) == CandidateAt(k) /\ UsageEnds(k) # {}

UsageBlock(k) == JsonLoads(Stripped(k, CHOOSE e \in UsageEnds(k) : TRUE))

\* ... and it is of the session the run asks for
MatchingAt(k) == UsageAt(k) /\ Get(UsageBlock(k), "session_id", "") = SessionId

\* a candidate block that is not a usage block: it does not parse (its braces
\* never balance, or balance on something that is no JSON) or is of another kind
MalformedAt(k) == CandidateAt(k) /\ UsageEnds(k) = {}

RECURSIVE ExpectedFrom(_)
\* the LLMCalls of the matching usage blocks from line k on, in log order
ExpectedFrom(k) ==
    IF k > Len(lines) THEN <<>>
    ELSE (IF MatchingAt(k) THEN <<LLMCall(UsageBlock(k))>> ELSE <<>>) \o ExpectedFrom(k + 1)

Extracted == pc \in {"build_summary", "done"}

IsSuffix(sq, of) ==
    /\ Len(sq) <= Len(of)
    /\ \A k \in 1..Len(sq) : sq[k] = of[Len(of) - Len(sq) + k]

\* C2: the log's N well-formed usage blocks of the session yield exactly N
\* LLMCalls, in the order of the blocks; a block that is unbalanced or of another
\* kind adds none.
C2_OneCallPerUsageBlock ==
    Extracted => llm_calls = ExpectedFrom(1)

\* C7: once a candidate block has been discarded (no JSON, or another kind),
\* every well-formed usage block that follows it later in the log under its own
\* marker is still emitted.
C7_BlocksAfterMalformedEmitted ==
    Extracted =>
        \A c \in 1..Len(lines) :
            MalformedAt(c) => IsSuffix(ExpectedFrom(c + 1), llm_calls)


\* the matching usage blocks that start on the line right after a marker line
RightAfterMarker ==
    {k \in 2..Len(lines) : HasMarker(lines[k - 1]) /\ MatchingAt(k)}

\* C12: a line read after a marker, while the block is still sought, that does
\* not begin with "{" abandons the marker and sends the scanner back to seeking
\* a marker; a block that begins later with no new marker line before it gives
\* no record, so the records are at most the blocks right after a marker.
C12_MarkerAbandoned ==
    /\ [](Extracted => Len(llm_calls) <= Cardinality(RightAfterMarker))
    /\ [][(/\ pc = "collect"
           /\ ~started
           /\ i < Len(lines)
           /\ ~StartsWithBrace(Strip(lines[i + 1]))
           /\ i' = i + 1)
          => pc' = "scan"]_vars

\* The cost formula of the contract, in 1e-8 dollars, at the rates of the
\* call's model (the default rates for a model the table does not list).
FormulaCost(c) ==
    LET rates == IF c.model \in DOMAIN MODEL_PRICING THEN MODEL_PRICING[c.model]
                 ELSE DEFAULT_PRICING
        fresh == IF c.input_tokens > c.cache_read_tokens
                 THEN c.input_tokens - c.cache_read_tokens ELSE 0
    IN  fresh * rates.input + c.cache_read_tokens * rates.cached_input
        + c.output_tokens * rates.output

Reported == pc = "done" /\ ~report.raised

SingleSonnetBlock == lines = <<LogLine("ts", "MARK"), LogLine("", "USAGE")>>

\* C5 (as stated): the cost the report gives for each recovered call is the
\* formula's value, and the lone claude-sonnet-4.5 block of 1000 input, 200
\* cache-read and 100 output tokens costs 0.0036 dollars.
C5_ReportedCallCostIsFormula ==
    Reported =>
        /\ \A k \in DOMAIN report.llm_calls :
              report.llm_calls[k].cost * 100000000 = FormulaCost(report.llm_calls[k])
        /\ SingleSonnetBlock => FormulaCost(report.llm_calls[1]) = 360000

\* C5 (amended): the report's estimated_cost_usd is the sum over the recovered
\* calls of the formula's value rounded to 6 decimals, rounded to 4 decimals;
\* the cost field of a call is the block's own metrics.cost (0 when it has
\* none); the lone claude-sonnet-4.5 block comes to 0.00396 dollars, reported
\* as an estimate of 0.004.
C5_EstimateIsSumOfFormula ==
    Reported =>
        /\ \E u \in BOOLEAN :
              report.summary.estimated_cost_usd =
                  Round(Sum([k \in DOMAIN report.llm_calls |->
                                Round(FormulaCost(report.llm_calls[k]), 100, u)]), 100, u)
        /\ LET kept == SelectSeq(blocks, LAMBDA b : Get(b, "session_id", "") = SessionId)
           IN  /\ Len(kept) = Len(report.llm_calls)
               /\ \A k \in DOMAIN kept :
                     report.llm_calls[k].cost = Get(Get(kept[k], "metrics", << >>), "cost", 0)
        /\ SingleSonnetBlock =>
              /\ FormulaCost(report.llm_calls[1]) = 396000
              /\ report.summary.estimated_cost_usd = 40

\* a report over both kinds of block, one of them with more cache reads than input
C5_Witness ==
    /\ Reported
    /\ Len(report.llm_calls) = 2
    /\ report.llm_calls[1].model = "claude-sonnet-4.5"
    /\ report.llm_calls[2].cache_read_tokens > report.llm_calls[2].input_tokens
    /\ report.llm_calls[2].cost = 2
    /\ report.summary.estimated_cost_usd = 43

(***************************************************************************)
(* The event parser under study: Init draws the events file, no process    *)
(* log is found, and the run goes on to the report.                        *)
(***************************************************************************)
EventAlphabet ==
    {Blank, Garbage, Deep, Scalar,
     Event("copilot.telemetry", << >>),
     Event("user.message", [content |-> 5]),
     Event("assistant.turn_start", [turnId |-> "t"]),
     Event("assistant.turn_end", << >>),
     Event("assistant.message", [toolRequests |-> <<"bash">>])}

InitEvents ==
    /\ pc = "parse_events"
    /\ events = EmptyEvents
    /\ current_turn = NoTurn
    /\ tool_start_map = << >>
    /\ \E sq \in SeqsUpTo(EventAlphabet, MaxEvents) : stream = StreamOf(sq)
    /\ nread = 0
    /\ IdleLog
    /\ report = NoReport
    /\ IdleFun

NextEvents ==
    \/ SkipBlank
    \/ SkipGarbage
    \/ JsonLoadsRaises
    \/ NotAnObject
    \/ UserMessage
    \/ TurnStart
    \/ TurnEnd
    \/ AssistantMessage
    \/ UnknownType
    \/ EndOfEvents
    \/ NoProcessLog
    \/ BuildSummary

SpecEvents == InitEvents /\ [][NextEvents]_vars

(***************************************************************************)
(* Claims about the event parser (checked under SpecEvents).               *)
(***************************************************************************)
RECURSIVE Count(_, _)
\* how many lines of sq are events of the type
Count(sq, type) ==
    IF sq = <<>> THEN 0
    ELSE (IF IsEvent(Head(sq), type) THEN 1 ELSE 0) + Count(Tail(sq), type)

TurnMarkers(sq) ==
    SelectSeq(sq, LAMBDA l : IsEvent(l, "assistant.turn_start")
                             \/ IsEvent(l, "assistant.turn_end"))

\* every turn start is followed by a turn end before the next turn start
NoOverwrite(sq) ==
    LET m == TurnMarkers(sq)
    IN  \A k \in DOMAIN m :
            IsEvent(m[k], "assistant.turn_start") =>
                k < Len(m) /\ IsEvent(m[k + 1], "assistant.turn_end")

\* C1: when every turn start of the stream is followed by a turn end before the
\* next turn start, the report's turns.total is the number of these start/end
\* pairs, user_initiated the number of user messages, and agent_initiated is
\* total minus user_initiated.
C1_TurnsCountPairs ==
    (pc = "done" /\ NoOverwrite(stream)) =>
        /\ report.turns.total = Count(stream, "assistant.turn_start")
        /\ report.turns.user_initiated = Count(stream, "user.message")
        /\ report.turns.agent_initiated =
              report.turns.total - report.turns.user_initiated

\* two pairs and one user message
C1_Witness ==
    /\ pc = "done"
    /\ NoOverwrite(stream)
    /\ Count(stream, "assistant.turn_start") = 2
    /\ Count(stream, "user.message") = 1
    /\ report.turns.total = 2

\* the step reads line stream[nread + 1]
Reads == pc = "parse_events" /\ nread' = nread + 1

\* a listed turn is one whose start line is followed, before any other turn
\* start, by the turn end line that closed it
ListedTurnsWereClosed ==
    \A k \in DOMAIN events.turns :
        LET st == events.turns[k].startTime.t
            en == events.turns[k].endTime.t
        IN  /\ st \in 1..nread /\ en \in 1..nread /\ st < en
            /\ IsEvent(stream[st], "assistant.turn_start")
            /\ IsEvent(stream[en], "assistant.turn_end")
            /\ \A j \in (st + 1)..(en - 1) :
                  ~IsEvent(stream[j], "assistant.turn_start")
                  /\ ~IsEvent(stream[j], "assistant.turn_end")

\* C11: there is one open turn at most; the turn list grows only by the open
\* turn, when a turn end is read while it is open, with that event's time as its
\* end; a turn start replaces the open turn, which is never listed; a turn end
\* or an assistant message read with no turn open changes nothing.
C11_TurnLifecycle ==
    /\ [](pc \in {"parse_events", "parse_process_log", "build_summary", "done"}
            => ListedTurnsWereClosed)
    /\ [][Reads =>
            LET l == stream[nread + 1]
            IN  /\ events'.turns # events.turns =>
                      IsEvent(l, "assistant.turn_end") /\ current_turn # NoTurn
                /\ (IsEvent(l, "assistant.turn_end") /\ current_turn # NoTurn) =>
                      /\ events'.turns =
                            Append(events.turns,
                                   [current_turn EXCEPT !.endTime = l.evt.timestamp])
                      /\ current_turn' = NoTurn
                /\ IsEvent(l, "assistant.turn_start") =>
                      /\ events' = events
                      /\ current_turn' # NoTurn
                      /\ current_turn'.startTime = l.evt.timestamp
                      /\ current_turn'.tool_calls = <<>>
                      /\ current_turn'.message_count = 0
                /\ ((IsEvent(l, "assistant.turn_end") \/ IsEvent(l, "assistant.message"))
                        /\ current_turn = NoTurn) =>
                      UNCHANGED <<events, current_turn, tool_start_map>>]_vars

\* a turn start overwrote an open turn, the second turn took a message and was
\* closed, and a further turn end found no turn open
C11_Witness ==
    /\ pc = "done"
    /\ Len(stream) = 5
    /\ IsEvent(stream[1], "assistant.turn_start")
    /\ IsEvent(stream[2], "assistant.turn_start")
    /\ IsEvent(stream[3], "assistant.message")
    /\ IsEvent(stream[4], "assistant.turn_end")
    /\ IsEvent(stream[5], "assistant.turn_end")
    /\ Len(events.turns) = 1
    /\ events.turns[1].startTime.t = 2
    /\ events.turns[1].message_count = 1

IsSkipped(l) == l.raw \in {"blank", "garbage", "deep"} \/ IsUnknown(l)

\* C8: a line that is blank, that json.loads does not accept, or that carries an
\* unknown event type changes nothing of the parser's state and never ends the
\* parse.
C8_SkippedLinesChangeNothing ==
    [][(pc = "parse_events" /\ nread' = nread + 1 /\ IsSkipped(stream[nread + 1]))
          => /\ UNCHANGED <<events, current_turn, tool_start_map>>
             /\ pc' = "parse_events"]_vars

(***************************************************************************)
(* The dev-loop analysis under study: Init draws the tool calls of the     *)
(* session, each a start line and its completion line with an id of its    *)
(* own; the run parses them and goes on to the report.                     *)
(***************************************************************************)
\* A "dotnet build ..." command of 80 characters, the same command with "-v"
\* after them, and a "make build ..." command (seg80 names the first 80
\* characters).
DotnetBuild     == Cmd("dotnet build", "", "", "", {"build"})
DotnetBuildLong == Cmd("dotnet build", "-v", "", "", {"build"})
MakeBuild       == Cmd("make build", "", "", "", {"build"})

\* "Build succeeded." and "Build FAILED."
BuildSucceeded == NoResult
BuildFailed    == Result(TRUE, -1, FALSE, 0, 0, FALSE)

ToolCall(tool, cmd, res) == [tool |-> tool, cmd |-> cmd, res |-> res]

ToolCalls ==
    {ToolCall("bash", c, r) : c \in {DotnetBuild, DotnetBuildLong, MakeBuild},
                              r \in {BuildSucceeded, BuildFailed}}
    \cup {ToolCall("edit", NoCmd, NoResult)}

\* the two lines of tool call n
LinesOf(tc, n) ==
    << Event("tool.execution_start",
             [toolName |-> tc.tool, toolCallId |-> ToString(n),
              arguments |-> IF tc.tool = "bash" THEN [command |-> tc.cmd] ELSE << >>]),
       Event("tool.execution_complete",
             [toolCallId |-> ToString(n), success |-> TRUE, result |-> tc.res]) >>

RECURSIVE Flatten(_, _)
Flatten(tcs, n) ==
    IF tcs = <<>> THEN <<>> ELSE LinesOf(Head(tcs), n) \o Flatten(Tail(tcs), n + 1)

InitDevLoop ==
    /\ pc = "parse_events"
    /\ events = EmptyEvents
    /\ current_turn = NoTurn
    /\ tool_start_map = << >>
    /\ \E tcs \in SeqsUpTo(ToolCalls, MaxToolCalls) : stream = StreamOf(Flatten(tcs, 1))
    /\ nread = 0
    /\ IdleLog
    /\ report = NoReport
    /\ IdleFun

NextDevLoop ==
    \/ ToolStart
    \/ ToolComplete
    \/ EndOfEvents
    \/ NoProcessLog
    \/ BuildSummary

SpecDevLoop == InitDevLoop /\ [][NextDevLoop]_vars

(***************************************************************************)
(* Claims about the dev-loop analysis (checked under SpecDevLoop).         *)
(***************************************************************************)
BuildActions == SelectSeq(events.dev_loop, LAMBDA d : d.type = "build")

EditBetween(a, b) ==
    \E k \in DOMAIN events.tool_completes :
        /\ events.tool_completes[k].name \in {"edit", "create"}
        /\ a.endTime.t < events.tool_completes[k].endTime.t
        /\ events.tool_completes[k].endTime.t < b.startTime.t

\* C6: four build actions that fail, fail, succeed and succeed, the last two of
\* the same truncated command with no edit or create completed between them,
\* give exactly one fix cycle, of 2 failures, and redundant_builds = 1, whatever
\* the commands of the first two builds.
C6_OneFixCycleOneRedundant ==
    LET b == BuildActions
    IN  (/\ pc = "done"
         /\ Len(b) = 4
         /\ ~b[1].success /\ ~b[2].success /\ b[3].success /\ b[4].success
         /\ Cut80(b[3].command) = Cut80(b[4].command)
         /\ ~EditBetween(b[3], b[4]))
        => /\ Len(report.dev_loop_summary.fix_cycles) = 1
           /\ report.dev_loop_summary.fix_cycles[1].failures = 2
           /\ report.dev_loop_summary.redundant_builds = 1

\* the build actions, other than the first, that the redundancy rule selects
RepeatedBuilds ==
    {k \in 2..Len(BuildActions) :
        /\ BuildActions[k].success
        /\ Cut80(BuildActions[k].command) = Cut80(BuildActions[k - 1].command)
        /\ ~EditBetween(BuildActions[k - 1], BuildActions[k])}

RECURSIVE ParseAll(_, _)
\* parse_events on a whole file
ParseAll(p, sq) ==
    IF sq = <<>> \/ p.raised THEN p ELSE ParseAll(Step(p, Head(sq)), Tail(sq))

SessionStarts ==
    {<<>>,
     <<Event("session.start", [sessionId |-> "S"])>>,
     <<Event("session.start", [sessionId |-> "S", startTime |-> Ts("naive", 0, 0)])>>}
TurnLines ==
    {<<>>, <<Event("assistant.turn_start", [turnId |-> "t"]),
             Event("assistant.turn_end", << >>)>>}
MessageLines == {<<>>, <<Event("user.message", [content |-> 5])>>}
TestPassed == Result(FALSE, -1, TRUE, 0, 3, FALSE)
TestFailed == Result(FALSE, -1, TRUE, 1, 2, FALSE)
DotnetTest == Cmd("dotnet test", "", "", "", {"test"})
DevLoopLines ==
    {<<>>} \cup
    {LinesOf(ToolCall("bash", DotnetBuild, r), 1) : r \in {BuildSucceeded, BuildFailed}} \cup
    {LinesOf(ToolCall("bash", DotnetTest, r), 1) : r \in {TestPassed, TestFailed}} \cup
    {LinesOf(ToolCall("bash", DotnetBuild, BuildFailed), 1)
        \o LinesOf(ToolCall("bash", DotnetTest, TestPassed), 2)}

UsageBlocks ==
    {[kind |-> "assistant_usage", session_id |-> "S",
      metrics |-> [input_tokens |-> n, cache_read_tokens |-> c, duration |-> d]] :
        n \in {0, 10}, c \in {0, 5}, d \in {3}}

InitAggregate ==
    /\ pc = "build_summary"
    /\ \E a \in SessionStarts, b \in MessageLines, c \in TurnLines, d \in DevLoopLines :
          LET p == ParseAll(NewParse, StreamOf(a \o b \o c \o d))
          IN  /\ ~p.raised
              /\ stream = StreamOf(a \o b \o c \o d)
              /\ nread = Len(stream)
              /\ events = p.events
              /\ current_turn = p.current_turn
              /\ tool_start_map = p.tool_start_map
    /\ log_path = "log"
    /\ lines = <<>>
    /\ IdleScan
    /\ \E bs \in SeqsUpTo(UsageBlocks, MaxCalls) : llm_calls = CallsOf(bs, "S")
    /\ report = NoReport
    /\ IdleFun

SpecAggregate == InitAggregate /\ [][BuildSummary]_vars

(***************************************************************************)
(* Claims about the aggregator (checked under SpecAggregate).              *)
(***************************************************************************)
TestActions == SelectSeq(events.dev_loop, LAMBDA d : d.type = "test")
TotalInput  == Sum(Field(llm_calls, "input_tokens"))

\* C9: with no input tokens, with no LLM calls, with no builds or with no
\* tests, build_summary completes without error; cache_hit_rate_pct is 0 when
\* the input tokens total 0, avg_llm_duration_ms is 0 and longest_call absent
\* when there are no calls, and a success rate is absent when there are no
\* builds, or no tests.
C9_NoDivisionByZero ==
    (/\ pc \in {"done", "raised"}
     /\ (TotalInput = 0 \/ llm_calls = <<>> \/ BuildActions = <<>> \/ TestActions = <<>>))
    => /\ pc = "done"
       /\ TotalInput = 0 => report.summary.cache_hit_rate_pct = 0
       /\ llm_calls = <<>> =>
             /\ report.summary.avg_llm_duration_ms = 0
             /\ report.summary.longest_call.none
       /\ BuildActions = <<>> => report.dev_loop_summary.build_success_rate_pct = ValNone
       /\ TestActions = <<>> => report.dev_loop_summary.test_success_rate_pct = ValNone

(***************************************************************************)
(* The fix-cycle detection under study: Init draws a longer session of     *)
(* builds that succeed or fail and of failing tests.                       *)
(***************************************************************************)
BuildCalls ==
    {ToolCall("bash", DotnetBuild, r) : r \in {BuildSucceeded, BuildFailed}}
    \cup {ToolCall("bash", DotnetTest, TestFailed)}

InitBuilds ==
    /\ pc = "parse_events"
    /\ events = EmptyEvents
    /\ current_turn = NoTurn
    /\ tool_start_map = << >>
    /\ \E tcs \in SeqsUpTo(BuildCalls, MaxBuilds) : stream = StreamOf(Flatten(tcs, 1))
    /\ nread = 0
    /\ IdleLog
    /\ report = NoReport
    /\ IdleFun

SpecBuilds == InitBuilds /\ [][NextDevLoop]_vars

(***************************************************************************)
(* Claims about the fix-cycle detection (checked under SpecBuilds).        *)
(***************************************************************************)
\* the maximal runs of failing builds, as <<first, last>> indices of the builds
FailingRuns ==
    LET b == BuildActions
    IN  {r \in (DOMAIN b) \X (DOMAIN b) :
            /\ r[1] <= r[2]
            /\ \A k \in r[1]..r[2] : ~b[k].success
            /\ r[1] = 1 \/ b[r[1] - 1].success
            /\ r[2] = Len(b) \/ b[r[2] + 1].success}

LongRuns == {r \in FailingRuns : r[2] - r[1] + 1 >= 2}

ToolAlphabet ==
    {Event("tool.execution_start", [toolName |-> "edit", toolCallId |-> "a"]),
     Event("tool.execution_start",
           [toolName |-> "bash", toolCallId |-> "a",
            arguments |-> [command |-> DotnetBuild]]),
     Event("tool.execution_start", [toolName |-> "create", toolCallId |-> "b"]),
     Event("tool.execution_complete",
           [toolCallId |-> "a", success |-> TRUE, result |-> BuildFailed]),
     Event("tool.execution_complete", [toolCallId |-> "b", success |-> FALSE]),
     Event("user.message", [content |-> 5])}

InitTools ==
    /\ pc = "parse_events"
    /\ events = EmptyEvents
    /\ current_turn = NoTurn
    /\ tool_start_map = << >>
    /\ \E sq \in SeqsUpTo(ToolAlphabet, MaxEvents) : stream = StreamOf(sq)
    /\ nread = 0
    /\ IdleLog
    /\ report = NoReport
    /\ IdleFun

NextTools ==
    \/ UserMessage
    \/ ToolStart
    \/ ToolComplete
    \/ EndOfEvents
    \/ NoProcessLog
    \/ BuildSummary

SpecTools == InitTools /\ [][NextTools]_vars

\* the lines read so far that are completions, in file order
CompletionLines ==
    SelectSeq([k \in 1..nread |-> k],
              LAMBDA k : IsEvent(stream[k], "tool.execution_complete"))

\* the start lines before line k that carry the id of the completion on line k
StartsBefore(k) ==
    {j \in 1..(k - 1) :
        /\ IsEvent(stream[j], "tool.execution_start")
        /\ stream[j].evt.data.toolCallId = stream[k].evt.data.toolCallId}

LastOf(S) == CHOOSE j \in S : \A h \in S : h <= j

Ls      == <<"l", "s">>
Make    == <<"M", "a", "k", "e">>
PyTest  == <<"P", "y", "T", "e", "s", "t">>
TscJest == <<"t", "s", "c", ";", "J", "e", "s", "t">>

Started(tool, args, success, res) ==
    [tool |-> tool, args |-> args, success |-> success, res |-> res]

\* the two lines of tool call n, for any tool and arguments
CallLines(tc, n) ==
    << Event("tool.execution_start",
             [toolName |-> tc.tool, toolCallId |-> ToString(n), arguments |-> tc.args]),
       Event("tool.execution_complete",
             [toolCallId |-> ToString(n), success |-> tc.success, result |-> tc.res]) >>

RECURSIVE FlattenCalls(_, _)
FlattenCalls(tcs, n) ==
    IF tcs = <<>> THEN <<>> ELSE CallLines(Head(tcs), n) \o FlattenCalls(Tail(tcs), n + 1)

StartedCalls ==
    {Started(t, [command |-> Typed(x)], TRUE, BuildSucceeded) :
        t \in {"bash", "powershell"}, x \in {Ls, Make, PyTest, TscJest}}
    \cup {Started("bash", << >>, TRUE, BuildSucceeded)}

InitClassify ==
    /\ pc = "parse_events"
    /\ events = EmptyEvents
    /\ current_turn = NoTurn
    /\ tool_start_map = << >>
    /\ \E tcs \in SeqsUpTo(StartedCalls, MaxStarts) :
            stream = StreamOf(FlattenCalls(tcs, 1))
    /\ nread = 0
    /\ IdleLog
    /\ report = NoReport
    /\ IdleFun

SpecClassify == InitClassify /\ [][NextDevLoop]_vars

\* what the command on a start line is to be classified as
Classified(data) ==
    LET args == Get(data, "arguments", << >>)
    IN  IF data.toolName # "bash" \/ "command" \notin DOMAIN args THEN "untracked"
        ELSE CASE args.command.seg80 = Ls      -> "untracked"
               [] args.command.seg80 = Make    -> "build"
               [] args.command.seg80 = PyTest  -> "test"
               [] args.command.seg80 = TscJest -> "test"

StartLines ==
    SelectSeq([k \in 1..nread |-> k],
              LAMBDA k : IsEvent(stream[k], "tool.execution_start"))

ResultTexts ==
    {Result(ph, e, FALSE, 0, 0, tf) : ph \in BOOLEAN, e \in {-1, 0, 2}, tf \in BOOLEAN}
    \cup {Result(ph, e, TRUE, f, 2, tf) :
              ph \in BOOLEAN, e \in {-1, 0, 2}, f \in {0, 1}, tf \in BOOLEAN}

FinalizedCalls ==
    {Started("bash", [command |-> Typed(x)], ok, r) :
        x \in {Make, PyTest}, ok \in BOOLEAN, r \in ResultTexts}

InitOutcome ==
    /\ pc = "parse_events"
    /\ events = EmptyEvents
    /\ current_turn = NoTurn
    /\ tool_start_map = << >>
    /\ \E tcs \in SeqsUpTo(FinalizedCalls, MaxFinalized) :
            stream = StreamOf(FlattenCalls(tcs, 1))
    /\ nread = 0
    /\ IdleLog
    /\ report = NoReport
    /\ IdleFun

SpecOutcome == InitOutcome /\ [][NextDevLoop]_vars

\* Every call of this specification is a dev-loop action: the n-th action was
\* finalized by line 2n, the completion of call n.
Flag(n)   == stream[2 * n].evt.data.success
Text(n)   == stream[2 * n].evt.data.result
Action(n) == events.dev_loop[n]

\* the text reports a test failure: a summary with failures, or without a
\* summary the words "tests failed"
ReportsTestFailure(r) == IF r.summary THEN r.failed > 0 ELSE r.tests_failed

C18_SummaryForTestsOnly ==
    \A n \in DOMAIN events.dev_loop :
        /\ Action(n).type = "build" =>
              /\ "test_failed" \notin DOMAIN Action(n)
              /\ "test_passed" \notin DOMAIN Action(n)
              /\ Action(n).success = (Flag(n) /\ ~build_failed(Text(n)))
        /\ (Action(n).type = "test" /\ Text(n).summary) =>
              /\ Action(n).test_failed = Text(n).failed
              /\ Action(n).test_passed = Text(n).passed
              /\ Text(n).failed > 0 => ~Action(n).success
              /\ Text(n).failed = 0 =>
                    Action(n).success = (Flag(n) /\ ~build_failed(Text(n)))

(***************************************************************************)
(* The pairing of subagents and of compactions under study: Init draws the *)
(* session as any sequence of subagent starts and completions over two     *)
(* tool-call ids and of compaction starts and completions.                 *)
(***************************************************************************)
LifecycleAlphabet ==
    {Event("subagent.started", [toolCallId |-> "a", agentName |-> "explore"]),
     Event("subagent.started", [toolCallId |-> "b", agentName |-> "task"]),
     Event("subagent.completed", [toolCallId |-> "a"]),
     Event("subagent.completed", [toolCallId |-> "b"]),
     Event("session.compaction_start", << >>),
     Event("session.compaction_complete", [preCompactionTokens |-> 7, success |-> TRUE])}

InitLifecycle ==
    /\ pc = "parse_events"
    /\ events = EmptyEvents
    /\ current_turn = NoTurn
    /\ tool_start_map = << >>
    /\ \E sq \in SeqsUpTo(LifecycleAlphabet, MaxEvents) : stream = StreamOf(sq)
    /\ nread = 0
    /\ IdleLog
    /\ report = NoReport
    /\ IdleFun

NextLifecycle ==
    \/ SubagentStarted
    \/ SubagentCompleted
    \/ CompactionStart
    \/ CompactionComplete
    \/ EndOfEvents
    \/ NoProcessLog
    \/ BuildSummary

SpecLifecycle == InitLifecycle /\ [][NextLifecycle]_vars

\* the subagents of an id that have no end time yet, by their place in the list
OpenSubagents(id) ==
    {k \in DOMAIN events.subagents :
        events.subagents[k].toolCallId = id /\ events.subagents[k].endTime = TsNone}

Ended == {k \in DOMAIN events.subagents : events.subagents[k].endTime # TsNone}

\* C19: a subagent completion sets the end time of one subagent, the first
\* started of its id that has none yet, and changes nothing when there is no
\* such subagent; so the subagents with an end time are never more than the
\* completions read, and an end time once set stays as it is.
C19_CompletionEndsFirstOpen ==
    /\ [](Cardinality(Ended) <= Count(SubSeq(stream, 1, nread), "subagent.completed"))
    /\ [][(Reads /\ IsEvent(stream[nread + 1], "subagent.completed")) =>
            LET l    == stream[nread + 1]
                open == OpenSubagents(l.evt.data.toolCallId)
            IN  IF open = {} THEN UNCHANGED <<events, current_turn, tool_start_map>>
                ELSE LET first == CHOOSE k \in open : \A j \in open : k <= j
                     IN  events' = [events EXCEPT
                                      !.subagents[first].endTime = l.evt.timestamp]]_vars
    /\ [][\A k \in Ended :
            /\ k \in DOMAIN events'.subagents
            /\ events'.subagents[k].endTime = events.subagents[k].endTime]_vars

\* two subagents of one id were started, then three completions of that id
\* came: the first ended the first, the second the second, the third nothing
C19_Witness ==
    /\ pc = "done"
    /\ Len(stream) = 5
    /\ Len(events.subagents) = 2
    /\ events.subagents[1].toolCallId = events.subagents[2].toolCallId
    /\ events.subagents[1].endTime = stream[3].evt.timestamp
    /\ events.subagents[2].endTime = stream[4].evt.timestamp
    /\ IsEvent(stream[5], "subagent.completed")
    /\ stream[5].evt.data.toolCallId = events.subagents[1].toolCallId

OpenCompactions ==
    {k \in DOMAIN events.compactions : events.compactions[k].endTime = TsNone}

\* C20: a compaction completion attaches to the compaction opened last among
\* those still unterminated, setting its end time, its token count and its
\* success flag and leaving the others as they are; it changes nothing only
\* when no compaction is unterminated.
C20_CompletionEndsLatestOpen ==
    [][(Reads /\ IsEvent(stream[nread + 1], "session.compaction_complete")) =>
        LET l == stream[nread + 1]
        IN  IF OpenCompactions = {} THEN UNCHANGED <<events, current_turn, tool_start_map>>
            ELSE LET latest == LastOf(OpenCompactions)
                 IN  events' = [events EXCEPT
                        !.compactions[latest] =
                            [@ EXCEPT !.endTime   = l.evt.timestamp,
                                      !.preTokens = l.evt.data.preCompactionTokens,
                                      !.success   = l.evt.data.success]]]_vars

(***************************************************************************)
(* Claims about the collections parse_events builds (checked under         *)
(* SpecTools and SpecEvents).                                              *)
(***************************************************************************)
\* the entries a collection holds stay where they are and as they are
Kept(coll) ==
    \A k \in DOMAIN events[coll] :
        /\ k \in DOMAIN events'[coll]
        /\ events'[coll][k] = events[coll][k]

\* C21: while parse_events runs, a turn, a tool completion record, a dev-loop
\* action, a subagent, an error or a user message that has been appended to its
\* collection is changed by no event read after that, whatever the sequence of
\* events, with repeated or colliding tool-call ids too.
C21_AppendedEntriesNeverChange ==
    [][Reads =>
        /\ Kept("turns")
        /\ Kept("tool_completes")
        /\ Kept("dev_loop")
        /\ Kept("subagents")
        /\ Kept("errors")
        /\ Kept("user_messages")]_vars

\* s is in the order of the events that started its entries; an entry whose
\* start was never seen (an empty start time) started nothing
StartOrdered(s, field) ==
    \A j, k \in DOMAIN s :
        (j < k /\ s[j][field] # TsEmpty /\ s[k][field] # TsEmpty)
            => s[j][field].t <= s[k][field].t

CompletionOrdered(s) ==
    \A j, k \in DOMAIN s : j < k => s[j].endTime.t <= s[k].endTime.t

SeededStarts ==
    {k \in 1..nread :
        /\ IsEvent(stream[k], "tool.execution_start")
        /\ stream[k].evt.data.toolName = "bash"
        /\ "command" \in DOMAIN Get(stream[k].evt.data, "arguments", << >>)
        /\ stream[k].evt.data.arguments.command.kw # {}}

\* a seeded start was completed: a completion of its id was read after it, with
\* no start of that id in between
Completed(k) ==
    \E c \in (k + 1)..nread :
        /\ IsEvent(stream[c], "tool.execution_complete")
        /\ stream[c].evt.data.toolCallId = stream[k].evt.data.toolCallId
        /\ \A j \in (k + 1)..(c - 1) :
              ~(/\ IsEvent(stream[j], "tool.execution_start")
                /\ stream[j].evt.data.toolCallId = stream[k].evt.data.toolCallId)

\* C23: a seeded start gives one dev-loop action at most, and gives it only when
\* a completion of its id is read: the dev-loop actions are never more than the
\* seeded starts, and a seeded start never completed, or overwritten by a later
\* start of its id before its completion, gives none.
C23_OneActionPerSeededStart ==
    /\ Len(events.dev_loop) <= Cardinality(SeededStarts)
    /\ Len(events.dev_loop) = Cardinality({k \in SeededStarts : Completed(k)})

\* C25: the reported turns.agent_initiated and summary.agent_turns are never
\* negative: the user messages are never more than the turns of the report.
C25_AgentTurnsNotNegative ==
    (pc = "done" /\ ~report.raised) =>
        /\ report.turns.agent_initiated >= 0
        /\ report.summary.agent_turns >= 0
        /\ report.turns.user_initiated <= report.turns.total

(***************************************************************************)
(* Termination of the telemetry scan (checked under SpecLogFair: the run   *)
(* is sequential, it takes its next step whenever it has one).             *)
(***************************************************************************)
SpecLogFair == SpecLog /\ WF_vars(NextLog)

Scanning == pc \in {"scan", "collect", "parse_block"}

\* what is left of the scan: the lines from the index on, and within one line
\* the way from collecting over parsing back to seeking
Remaining ==
    3 * (Len(lines) + 1 - i)
        + (CASE pc = "collect" -> 2 [] pc = "parse_block" -> 1 [] OTHER -> 0)

\* C24: the scan ends on every finite input: every turn of the marker-seeking
\* loop and every turn of the block-collecting loop that does not leave it moves
\* the line index on by one, a block that ends moves it on as well before the
\* next marker is sought, a line is taken into a candidate block only at the
\* index, so into one block at most, and a block whose braces never close ends
\* with the input.
C24_ScanTerminates ==
    /\ [](Scanning => (i <= Len(lines) + 1 /\ Remaining >= 0))
    /\ [][(pc = "scan" /\ ~Scanning') => i >= Len(lines)]_vars
    /\ [][(Scanning /\ Scanning') =>
            /\ Remaining' < Remaining
            /\ i' >= i
            /\ (pc' = pc) => i' = i + 1
            /\ (pc = "scan" /\ pc' = "collect") => (i' = i + 1 /\ json_lines' = <<>>)
            /\ (pc = "collect" /\ pc' = "parse_block") =>
                  (i' = i /\ (json_lines' # json_lines => i < Len(lines)))
            /\ pc = "parse_block" => (i' = i + 1 /\ pc' = "scan")
            /\ (pc # "scan" /\ json_lines' # json_lines) =>
                  json_lines' = Append(json_lines, Strip(lines[i + 1]))]_vars
    /\ <>(pc \in {"done", "raised"})

\* a block opened on the second of five lines never closed: the scan stopped
\* with the input, one step past the last line, and the run went on to its end
C24_Witness ==
    /\ pc = "done"
    /\ Len(lines) = 5
    /\ HasMarker(lines[1])
    /\ lines[2].text = "OPEN"
    /\ \A k \in 3..5 : lines[k].text \in {"NOISE", "OPEN", "MARK"}
    /\ Len(json_lines) = 4
    /\ brace_count > 0
    /\ i = Len(lines) + 1
    /\ blocks = <<>>

InitCost ==
    /\ pc = "compute_cost"
    /\ cost_in \in [input_tokens : TokenCounts, output_tokens : TokenCounts,
                    cache_read_tokens : TokenCounts, model : ModelIds]
    /\ cost_out = CostIdleOut
    /\ dur_in = DurIdleIn
    /\ dur_out = DurIdleOut
    /\ IdleParse
    /\ IdleLog
    /\ report = NoReport

CallComputeCost ==
    /\ pc = "compute_cost"
    /\ \E up \in BOOLEAN :
          cost_out' = [done |-> TRUE,
                       cost |-> compute_cost(cost_in.input_tokens, cost_in.output_tokens,
                                             cost_in.cache_read_tokens, cost_in.model, up),
                       up   |-> up]
    /\ pc' = "done"
    /\ UNCHANGED <<cost_in, dur_in, dur_out, evVars, logVars, report>>

SpecCost == InitCost /\ [][CallComputeCost]_vars

(***************************************************************************)
(* Claims about compute_cost (checked under SpecCost).                     *)
(***************************************************************************)
CostAt(a, up) ==
    compute_cost(a.input_tokens, a.output_tokens, a.cache_read_tokens, a.model, up)

\* Two calls whose three products are the same numbers produce the same double,
\* hence the same rounding: the tie flag of the second is that of the first.
SameTerms(a, b) ==
    /\ Max(0, a.input_tokens - a.cache_read_tokens)
         = Max(0, b.input_tokens - b.cache_read_tokens)
    /\ a.cache_read_tokens = b.cache_read_tokens
    /\ a.output_tokens = b.output_tokens
    /\ a.model = b.model

\* The call b (one count of cost_in raised) never costs less than the call made.
NeverLowers(b) ==
    \A up2 \in BOOLEAN :
        (SameTerms(cost_in, b) => up2 = cost_out.up) => CostAt(b, up2) >= cost_out.cost

RaisedInput  == {[cost_in EXCEPT !.input_tokens = n] :
                    n \in {x \in TokenCounts : x > cost_in.input_tokens}}
RaisedOutput == {[cost_in EXCEPT !.output_tokens = n] :
                    n \in {x \in TokenCounts : x > cost_in.output_tokens}}
RaisedCache  == {[cost_in EXCEPT !.cache_read_tokens = n] :
                    n \in {x \in TokenCounts : x > cost_in.cache_read_tokens}}

\* C3 as stated: raising any one of the three token counts alone, the other two
\* and the model held fixed, never lowers the cost.
C3_MonotoneInEachCount ==
    cost_out.done => \A b \in RaisedInput \cup RaisedOutput \cup RaisedCache : NeverLowers(b)

\* C3 as amended: raising inputTokens alone or outputTokens alone never lowers the
\* cost; raising cacheReadTokens alone never lowers it when cacheReadTokens is
\* already at or above inputTokens (no fresh input is left to displace).
C3_MonotoneAmended ==
    cost_out.done =>
        /\ \A b \in RaisedInput \cup RaisedOutput : NeverLowers(b)
        /\ cost_in.cache_read_tokens >= cost_in.input_tokens
              => \A b \in RaisedCache : NeverLowers(b)

\* A call was made with cache reads covering the input, and one more step of
\* cache reads costs strictly more.
C3_Witness ==
    /\ cost_out.done
    /\ cost_in.cache_read_tokens >= cost_in.input_tokens
    /\ cost_in.input_tokens > 0
    /\ \E b \in RaisedCache : CostAt(b, FALSE) > cost_out.cost

\* C4: the cost is never negative for non-negative counts, whatever the model
\* identifier, and is exactly 0 when all three counts are 0.
C4_NonNegativeZeroAtZero ==
    cost_out.done =>
        /\ cost_out.cost >= 0
        /\ (cost_in.input_tokens = 0 /\ cost_in.output_tokens = 0
              /\ cost_in.cache_read_tokens = 0) => cost_out.cost = 0

\* A call whose cache reads exceed its input tokens (the clamp is what keeps the
\* fresh input from going negative) for a model outside the table.
C4_Witness ==
    /\ cost_out.done
    /\ cost_in.cache_read_tokens > cost_in.input_tokens
    /\ cost_in.model \notin DOMAIN MODEL_PRICING
    /\ cost_out.cost > 0

(***************************************************************************)
(* compute_duration_ms under study.                                        *)
(***************************************************************************)
InitDuration ==
    /\ pc = "compute_duration_ms"
    /\ dur_in \in [start_ts : TimestampValues, end_ts : TimestampValues]
    /\ dur_out = DurIdleOut
    /\ cost_in = CostIdleIn
    /\ cost_out = CostIdleOut
    /\ IdleParse
    /\ IdleLog
    /\ report = NoReport

CallComputeDuration ==
    /\ pc = "compute_duration_ms"
    /\ dur_out' = [done |-> TRUE, dur |-> compute_duration_ms(dur_in.start_ts, dur_in.end_ts)]
    /\ pc' = "done"
    /\ UNCHANGED <<cost_in, cost_out, dur_in, evVars, logVars, report>>

SpecDuration == InitDuration /\ [][CallComputeDuration]_vars

(***************************************************************************)
(* Claims about compute_duration_ms (checked under SpecDuration).          *)
(***************************************************************************)
Unusable(ts) == ts.k \in {"None", "empty", "bad"}

\* C10: a duration computation never raises, for any pair of timestamp values
\* (missing, unparsable, with an offset or a trailing Z, without an offset), and
\* the duration is absent whenever either timestamp is missing or unparsable.
C10_DurationNeverRaises ==
    dur_out.done =>
        /\ ~dur_out.dur.raised
        /\ (Unusable(dur_in.start_ts) \/ Unusable(dur_in.end_ts)) => dur_out.dur.none

====
